---- MODULE Spec2Model ----
(***************************************************************************)
(* Model of the async-ride-boost backend: the two ride-booking handlers    *)
(* (five store queries awaited one after the other, or launched together   *)
(* and joined with Promise.all), the in-process benchmark that simulates   *)
(* them with timers, and the rolling benchmark history.                    *)
(*                                                                         *)
(* SpecBook follows one booking run or one simulated test request at a    *)
(* time (SpecBookFair adds the fairness of the event loop); SpecHistory    *)
(* follows many overlapping benchmark runs of one test request each;       *)
(* SpecBench follows a few benchmark runs with every kind of input and     *)
(* SpecCompare two runs that are compared; SpecLoad follows a load test of *)
(* the benchmark script with the handlers serving its requests, or the     *)
(* in-process benchmark (SpecLoadFair adds the fairness of the request     *)
(* timers).                                                                *)
(*                                                                         *)
(* Node.js runs every handler on one event loop: the code between two      *)
(* awaits runs to completion, and the continuation of an await runs in the *)
(* same turn as the settlement that wakes it.  One action is therefore one *)
(* such turn.  Time is the value Date.now() returns; it advances only      *)
(* while the loop is waiting (Tick), never inside a turn.                  *)
(***************************************************************************)
EXTENDS Integers, Sequences, FiniteSets, TLC

VARIABLES
    now,          \* Date.now()
    kind,         \* "book": a rides.js handler; "test": makeTestRequest
    method,       \* "sequential" | "parallel"
    pc,           \* "idle" | "awaiting" | "responded"
    ops,          \* the five store operations of the current run
    startTime,    \* const startTime = Date.now()
    dbStartTime,  \* const dbStartTime = Date.now()
    response,     \* what the run answered (res.json / the returned value)
    benchmarkResults,  \* let benchmarkResults = []
    runs,         \* the POST /benchmark/run requests received so far
    completed,    \* history variable: the runs answered 200, in that order
    lastGet,      \* the answer of GET /benchmark/results sent in this turn
    load,         \* the runLoadTest call of the benchmark script, if any
    loadPromises, \* runLoadTest's `promises`: one entry per makeRequest call
    stats,        \* the value runLoadTest returns
    inputs,       \* RideBooking: pickupLocation, dropoffLocation, rideType
    estimateTimeoutRef,  \* the pending debounce timer, if any
    estimateCalls,       \* the getEstimate calls waiting for their response
    estimate,     \* the displayed estimate (the inputs it was computed for)
    isEstimating,
    estimateError,
    sockets,      \* the connected sockets
    closed,       \* history variable: the sockets that have disconnected
    connectedDrivers,    \* let connectedDrivers = new Map()
    emitted,      \* the events broadcast in this turn
    lastReporter, \* history variable: the socket of each driver's last update
    reported,     \* history variable: who has ever reported which driver
    users,        \* the rows of table users
    drivers,      \* the rows of table drivers
    signups,      \* the POST /auth/signup requests received so far
    logins,       \* the POST /auth/login requests received so far
    rides,        \* the rows of table rides
    lastCancel    \* the DELETE /rides/:rideId request served in this turn

bookVars == <<now, kind, method, pc, ops, startTime, dbStartTime, response>>

benchVars == <<benchmarkResults, runs, completed, lastGet>>

loadVars == <<load, loadPromises, stats>>

uiVars ==
    <<inputs, estimateTimeoutRef, estimateCalls, estimate, isEstimating,
      estimateError>>

socketVars ==
    <<sockets, closed, connectedDrivers, emitted, lastReporter, reported>>

authVars == <<users, drivers, signups, logins>>

rideVars == <<rides, lastCancel>>

appVars == <<uiVars, socketVars, authVars, rideVars>>

orchestrationVars == <<bookVars, benchVars, loadVars>>

vars == <<bookVars, benchVars, loadVars, appVars>>

-----------------------------------------------------------------------------
(* Bounds and program constants *)

NumOps == 5           \* operations: 5
MaxDur == 2           \* longest store query, in ms
MaxJitter == 1        \* largest timer jitter, in ms (the code's is below 30)
MaxStart == 1         \* a later clock value at which a request may arrive

Never == -1           \* the duration of a store query that never settles

OpIds == 1..NumOps
Durations == 0..MaxDur
Latencies == Durations \cup {Never}
Jitters == 0..MaxJitter
StartTimes == {0, MaxStart}

\* simulateDbQuery(50), (80), (60), (40), (70)
BaseDelay == <<50, 80, 60, 40, 70>>

Methods == {"sequential", "parallel"}

-----------------------------------------------------------------------------
(* Pure helpers *)

RECURSIVE SumTo(_, _)
SumTo(f, n) == IF n = 0 THEN 0 ELSE f[n] + SumTo(f, n - 1)

RECURSIVE MaxTo(_, _)
MaxTo(f, n) ==
    IF n = 1 THEN f[1]
    ELSE LET m == MaxTo(f, n - 1) IN IF f[n] > m THEN f[n] ELSE m

SetMin(S) == CHOOSE x \in S : \A y \in S : x <= y

NotStarted == [status |-> "notStarted", start |-> 0, dur |-> 0]

\* `operation` is the operation an answer names as the one that failed
\* (0: it names none).
NoResponse ==
    [status |-> 0, ride_id |-> FALSE, totalTime |-> 0, dbTime |-> 0,
     operation |-> 0, rideStatus |-> "", operations |-> 0]

InFlight(o) == {i \in OpIds : o[i].status = "inFlight"}

\* The operations in flight that will settle.
Due(o) == {i \in InFlight(o) : o[i].dur # Never}

Deadline(o, i) == o[i].start + o[i].dur

\* db.execute(...) / simulateDbQuery(...): the call made at time t returns a
\* pending promise that settles d ms later.
Launch(o, i, t, d) ==
    [o EXCEPT ![i] = [status |-> "inFlight", start |-> t, dur |-> d]]

\* The array literal handed to Promise.all: every call is made before the
\* await, so all five are pending when the handler suspends.
LaunchFirstOnly(o, t, ds) == Launch(o, 1, t, ds[1])

LaunchAll(o, t, ds) ==
    [i \in OpIds |-> [status |-> "inFlight", start |-> t, dur |-> ds[i]]]

\* `await db.execute(...)`: the next statement is reached only once this
\* operation has settled, so exactly operation i is launched.
LaunchAwaitedNoAwaitOnLog(o, i, t, d) ==
    IF i = 4 THEN Launch(Launch(o, 4, t, d), 5, t, d) ELSE Launch(o, i, t, d)

LaunchAwaited(o, i, t, d) == Launch(o, i, t, d)

Settle(o, i, ok) ==
    [o EXCEPT ![i].status = IF ok THEN "fulfilled" ELSE "rejected"]

\* A rejected awaited promise throws into the try block: control leaves the
\* sequence of statements for the catch clause.
ContinuesAfterAlways(ok) == TRUE

ContinuesAfter(ok) == ok

\* Promise.all fulfils when every input promise has fulfilled.
AnyFulfilled(o) == \E i \in OpIds : o[i].status = "fulfilled"

AllFulfilled(o) == \A i \in OpIds : o[i].status = "fulfilled"

\* dbEndTime - dbStartTime
DbTimeFromLastStart(o) == now - o[NumOps].start

DbTime(o) == now - dbStartTime

\* res.json({ ride_id, status: 'requested', performance: {...} })
Success(o) ==
    [status |-> 200, ride_id |-> TRUE, totalTime |-> now - startTime,
     dbTime |-> DbTime(o), operation |-> 0, rideStatus |-> "requested",
     operations |-> NumOps]

\* res.status(500).json({ message: 'Failed to book ride (...)' }): the body
\* is the fixed message alone.
FailureMasked ==
    [status |-> 200, ride_id |-> TRUE, totalTime |-> 0, dbTime |-> 0,
     operation |-> 0, rideStatus |-> "requested", operations |-> NumOps]

Failure ==
    [status |-> 500, ride_id |-> FALSE, totalTime |-> 0, dbTime |-> 0,
     operation |-> 0, rideStatus |-> "", operations |-> 0]

\* makeTestRequest: return endTime - startTime
Returned(o) ==
    [status |-> 200, ride_id |-> FALSE, totalTime |-> now - startTime,
     dbTime |-> DbTime(o), operation |-> 0, rideStatus |-> "",
     operations |-> 0]

\* No handler is running: the next request finds a fresh closure.
Quiescent == pc = "idle"

AllNotStarted == [i \in OpIds |-> NotStarted]

-----------------------------------------------------------------------------
(* Initial state *)

InitBook ==
    /\ now = 0
    /\ kind = "book"
    /\ method = "sequential"
    /\ pc = "idle"
    /\ ops = AllNotStarted
    /\ startTime = 0
    /\ dbStartTime = 0
    /\ response = NoResponse

InitBench ==
    /\ benchmarkResults = <<>>
    /\ runs = <<>>
    /\ completed = <<>>
    /\ lastGet = [sent |-> FALSE, results |-> <<>>,
                  comparison |-> [present |-> FALSE, sequential |-> 0,
                                  parallel |-> 0,
                                  percentage |-> [finite |-> TRUE, tenths |-> 0],
                                  timesSaved |-> [finite |-> TRUE, tenths |-> 0]]]

\* No load test has run: runLoadTest has returned nothing yet.
NoStats ==
    [returned |-> FALSE, endpoint |-> "sequential", concurrentUsers |-> 0,
     requestsPerUser |-> 0, totalRequests |-> 0, successfulRequests |-> 0,
     failedRequests |-> 0, successRate |-> [finite |-> TRUE, hundredths |-> 0]]

InitLoad ==
    /\ load = [pc |-> "idle", endpoint |-> "sequential", concurrentUsers |-> 0,
               requestsPerUser |-> 0]
    /\ loadPromises = <<>>
    /\ stats = NoStats

MaxDrivers == 2         \* driver ids that location updates may name

DriverIds == 1..MaxDrivers

NoCancel == [sent |-> FALSE, rideId |-> 0, userId |-> 0, status |-> 0]

\* The component has mounted without locations, no socket has connected and
\* the tables are empty.
InitApp ==
    /\ inputs = [version |-> 0, complete |-> FALSE]
    /\ estimateTimeoutRef = 0
    /\ estimateCalls = {}
    /\ estimate = 0
    /\ isEstimating = FALSE
    /\ estimateError = FALSE
    /\ sockets = {}
    /\ closed = {}
    /\ connectedDrivers = <<>>
    /\ emitted = <<>>
    /\ lastReporter = [d \in DriverIds |-> 0]
    /\ reported = {}
    /\ users = {}
    /\ drivers = {}
    /\ signups = <<>>
    /\ logins = <<>>
    /\ rides = <<>>
    /\ lastCancel = NoCancel

Init == InitBook /\ InitBench /\ InitLoad /\ InitApp

-----------------------------------------------------------------------------
(* POST /rides/book-sequential, and makeTestRequest('sequential') *)

\* The operation the sequential run is waiting for.
Current(o) == CHOOSE i \in InFlight(o) : \A j \in InFlight(o) : i <= j

\* The handler runs up to its first await: the wallet query is pending.
BookSequentialStart(t, d) ==
    /\ Quiescent
    /\ now' = t
    /\ kind' = "book"
    /\ method' = "sequential"
    /\ pc' = "awaiting"
    /\ startTime' = t
    /\ dbStartTime' = t
    /\ ops' = LaunchAwaited(AllNotStarted, 1, t, d)
    /\ response' = NoResponse
    /\ UNCHANGED benchVars
    /\ UNCHANGED loadVars
    /\ UNCHANGED appVars

\* The awaited query settles and the handler runs to its next await, to
\* res.json, or into the catch clause.
BookSequentialResume(ok, d) ==
    /\ kind = "book" /\ method = "sequential" /\ pc = "awaiting"
    /\ InFlight(ops) # {}
    /\ LET i == Current(ops)
           settled == Settle(ops, i, ok)
       IN /\ i \in Due(ops)
          /\ Deadline(ops, i) = now
          /\ IF ~ContinuesAfter(ok)
             THEN /\ ops' = settled
                  /\ pc' = "responded"
                  /\ response' = Failure
             ELSE IF i < NumOps
             THEN /\ ops' = LaunchAwaited(settled, i + 1, now, d)
                  /\ pc' = "awaiting"
                  /\ response' = response
             ELSE /\ ops' = settled
                  /\ pc' = "responded"
                  /\ response' = Success(settled)
    /\ UNCHANGED <<now, kind, method, startTime, dbStartTime>>
    /\ UNCHANGED benchVars
    /\ UNCHANGED loadVars
    /\ UNCHANGED appVars

\* simulateDbQuery(baseDelay): setTimeout(resolve, baseDelay + jitter)
SimulatedDelay(i, j) == BaseDelay[i] + j

MakeTestRequestSequentialStart(t, j) ==
    /\ Quiescent
    /\ now' = t
    /\ kind' = "test"
    /\ method' = "sequential"
    /\ pc' = "awaiting"
    /\ startTime' = t
    /\ dbStartTime' = t
    /\ ops' = LaunchAwaited(AllNotStarted, 1, t, SimulatedDelay(1, j))
    /\ response' = NoResponse
    /\ UNCHANGED benchVars
    /\ UNCHANGED loadVars
    /\ UNCHANGED appVars

\* A timer fires; simulateSequentialOperations reaches its next await or
\* returns, and makeTestRequest returns endTime - startTime.
MakeTestRequestSequentialResume(j) ==
    /\ kind = "test" /\ method = "sequential" /\ pc = "awaiting"
    /\ InFlight(ops) # {}
    /\ LET i == Current(ops)
           settled == Settle(ops, i, TRUE)
       IN /\ Deadline(ops, i) = now
          /\ IF i < NumOps
             THEN /\ ops' = LaunchAwaited(settled, i + 1, now,
                                          SimulatedDelay(i + 1, j))
                  /\ pc' = "awaiting"
                  /\ response' = response
             ELSE /\ ops' = settled
                  /\ pc' = "responded"
                  /\ response' = Returned(settled)
    /\ UNCHANGED <<now, kind, method, startTime, dbStartTime>>
    /\ UNCHANGED benchVars
    /\ UNCHANGED loadVars
    /\ UNCHANGED appVars

-----------------------------------------------------------------------------
(* POST /rides/book-parallel, and makeTestRequest('parallel') *)

BookParallelStart(t, ds) ==
    /\ Quiescent
    /\ now' = t
    /\ kind' = "book"
    /\ method' = "parallel"
    /\ pc' = "awaiting"
    /\ startTime' = t
    /\ dbStartTime' = t
    /\ ops' = LaunchAll(AllNotStarted, t, ds)
    /\ response' = NoResponse
    /\ UNCHANGED benchVars
    /\ UNCHANGED loadVars
    /\ UNCHANGED appVars

\* One query settles.  Promise.all rejects with the first rejection and
\* fulfils once every query has fulfilled; the handler then runs to
\* res.json or res.status(500).  A query that settles after the handler has
\* answered changes nothing in the handler.
BookParallelSettle(i, ok) ==
    /\ kind = "book" /\ method = "parallel"
    /\ i \in Due(ops)
    /\ Deadline(ops, i) = now
    /\ LET settled == Settle(ops, i, ok)
       IN /\ ops' = settled
          /\ IF pc = "awaiting" /\ ~ok
             THEN pc' = "responded" /\ response' = Failure
             ELSE IF pc = "awaiting" /\ AllFulfilled(settled)
             THEN pc' = "responded" /\ response' = Success(settled)
             ELSE UNCHANGED <<pc, response>>
    /\ UNCHANGED <<now, kind, method, startTime, dbStartTime>>
    /\ UNCHANGED benchVars
    /\ UNCHANGED loadVars
    /\ UNCHANGED appVars

MakeTestRequestParallelStart(t, js) ==
    /\ Quiescent
    /\ now' = t
    /\ kind' = "test"
    /\ method' = "parallel"
    /\ pc' = "awaiting"
    /\ startTime' = t
    /\ dbStartTime' = t
    /\ ops' = LaunchAll(AllNotStarted, t,
                        [i \in OpIds |-> SimulatedDelay(i, js[i])])
    /\ response' = NoResponse
    /\ UNCHANGED benchVars
    /\ UNCHANGED loadVars
    /\ UNCHANGED appVars

MakeTestRequestParallelSettle(i) ==
    /\ kind = "test" /\ method = "parallel"
    /\ i \in InFlight(ops)
    /\ Deadline(ops, i) = now
    /\ LET settled == Settle(ops, i, TRUE)
       IN /\ ops' = settled
          /\ IF pc = "awaiting" /\ AllFulfilled(settled)
             THEN pc' = "responded" /\ response' = Returned(settled)
             ELSE UNCHANGED <<pc, response>>
    /\ UNCHANGED <<now, kind, method, startTime, dbStartTime>>
    /\ UNCHANGED benchVars
    /\ UNCHANGED loadVars
    /\ UNCHANGED appVars

-----------------------------------------------------------------------------
(* The event loop waits: the clock moves to the next settlement that is due *)

Tick ==
    /\ Due(ops) # {}
    /\ LET next == SetMin({Deadline(ops, i) : i \in Due(ops)})
       IN /\ next > now
          /\ now' = next
    /\ UNCHANGED <<kind, method, pc, ops, startTime, dbStartTime, response>>
    /\ UNCHANGED benchVars
    /\ UNCHANGED loadVars
    /\ UNCHANGED appVars

\* The run is over: the handler has answered and every promise it created
\* has settled or never will, so nothing more happens in it.
RunEnds ==
    /\ pc = "responded"
    /\ Due(ops) = {}
    /\ now' = 0
    /\ kind' = "book"
    /\ method' = "sequential"
    /\ pc' = "idle"
    /\ ops' = AllNotStarted
    /\ startTime' = 0
    /\ dbStartTime' = 0
    /\ response' = NoResponse
    /\ UNCHANGED benchVars
    /\ UNCHANGED loadVars
    /\ UNCHANGED appVars

NextBook ==
    \/ /\ Quiescent
       /\ \E t \in StartTimes, d \in Latencies : BookSequentialStart(t, d)
    \/ \E ok \in BOOLEAN, d \in Latencies : BookSequentialResume(ok, d)
    \/ /\ Quiescent
       /\ \E t \in StartTimes, ds \in [OpIds -> Latencies] :
              BookParallelStart(t, ds)
    \/ \E i \in OpIds, ok \in BOOLEAN : BookParallelSettle(i, ok)
    \/ /\ Quiescent
       /\ \E t \in StartTimes, j \in Jitters :
              MakeTestRequestSequentialStart(t, j)
    \/ \E j \in Jitters : MakeTestRequestSequentialResume(j)
    \/ /\ Quiescent
       /\ \E t \in StartTimes, js \in [OpIds -> Jitters] :
              MakeTestRequestParallelStart(t, js)
    \/ \E i \in OpIds : MakeTestRequestParallelSettle(i)
    \/ Tick
    \/ RunEnds

SpecBook == Init /\ [][NextBook]_vars

\* The event loop runs every timer that is due and every continuation that
\* is ready; nothing obliges a store query to settle or a request to arrive.
SpecBookFair ==
    /\ SpecBook
    /\ WF_vars(Tick)
    /\ WF_vars(\E ok \in BOOLEAN, d \in Latencies : BookSequentialResume(ok, d))
    /\ WF_vars(\E i \in OpIds, ok \in BOOLEAN : BookParallelSettle(i, ok))
    /\ WF_vars(\E j \in Jitters : MakeTestRequestSequentialResume(j))
    /\ WF_vars(\E i \in OpIds : MakeTestRequestParallelSettle(i))

-----------------------------------------------------------------------------
(* Properties of one run (checked under SpecBook) *)

Dur == [i \in OpIds |-> ops[i].dur]

Started(i) == ops[i].status # "notStarted"

\* C1: in a sequential run the operations are invoked in array order and at
\* no instant are two of them in flight: an operation has started only if
\* every earlier one has fulfilled, and it started no earlier than the
\* instant its predecessor settled.
SequentialOneAtATime ==
    method = "sequential" =>
        /\ Cardinality(InFlight(ops)) <= 1
        /\ \A i \in OpIds : Started(i) =>
              \A j \in 1..(i - 1) :
                  /\ ops[j].status = "fulfilled"
                  /\ Deadline(ops, j) <= ops[i].start

\* C1 witness: the third query of book-sequential is in flight after the
\* first two have settled.
SequentialThirdInFlight ==
    /\ kind = "book" /\ method = "sequential"
    /\ ops[1].status = "fulfilled" /\ ops[2].status = "fulfilled"
    /\ ops[3].status = "inFlight"
    /\ ops[1].dur > 0

\* C2: a parallel run never answers while one of its operations is still
\* in flight.
ParallelWaitsForAll ==
    (method = "parallel" /\ pc = "responded") => InFlight(ops) = {}

\* C3: in a parallel run every operation is launched at the start of the
\* run, whatever the state of its siblings: once the run has begun none is
\* left unstarted, and each started at the instant the run began.
ParallelLaunchesAll ==
    (method = "parallel" /\ pc # "idle") =>
        \A i \in OpIds : Started(i) /\ ops[i].start = dbStartTime

\* C3 witness: all five queries of book-parallel are in flight at once.
ParallelAllInFlight ==
    /\ kind = "book" /\ method = "parallel"
    /\ InFlight(ops) = OpIds

\* C4: in book-sequential, once an operation has failed every later
\* operation is never invoked, and the answer is an error without ride_id.
SequentialAbortsOnFailure ==
    (kind = "book" /\ method = "sequential") =>
        \A i \in OpIds : ops[i].status = "rejected" =>
            /\ \A j \in (i + 1)..NumOps : ~Started(j)
            /\ pc = "responded"
            /\ response.status = 500
            /\ ~response.ride_id

\* C4 witness: the second query of book-sequential has failed after the
\* first succeeded.
SequentialSecondRejected ==
    /\ kind = "book" /\ method = "sequential"
    /\ ops[1].status = "fulfilled" /\ ops[2].status = "rejected"

\* C5: in book-parallel, when one operation has failed and another has
\* succeeded, the run's outcome is Success (and carries the results).
ParallelFailureIsTolerated ==
    ( /\ kind = "book" /\ method = "parallel" /\ pc = "responded"
      /\ \E a \in OpIds : ops[a].status = "rejected"
      /\ \E b \in OpIds : ops[b].status = "fulfilled" )
    => (response.status = 200 /\ response.ride_id)

\* C6: the measured duration of a successful parallel run is the largest of
\* its operations' durations, and is less than their sum when every
\* duration is positive.
ParallelTotalIsMax ==
    (method = "parallel" /\ pc = "responded" /\ response.status = 200) =>
        /\ response.dbTime = MaxTo(Dur, NumOps)
        /\ response.totalTime = MaxTo(Dur, NumOps)
        /\ (\A i \in OpIds : Dur[i] > 0) => response.dbTime < SumTo(Dur, NumOps)

\* C6 witness: book-parallel has answered a run whose durations are all
\* positive and not all the same.
ParallelAnsweredPositive ==
    /\ kind = "book" /\ method = "parallel"
    /\ pc = "responded" /\ response.status = 200
    /\ \A i \in OpIds : Dur[i] > 0
    /\ Dur[1] < Dur[2]

\* C7: in a sequential run each operation's start offset is at least its
\* predecessor's start offset plus duration, and the measured duration of a
\* successful run is the sum of the durations.
SequentialTotalIsSum ==
    method = "sequential" =>
        /\ \A i \in 2..NumOps : Started(i) =>
              ops[i].start - dbStartTime
                  >= (ops[i - 1].start - dbStartTime) + ops[i - 1].dur
        /\ (pc = "responded" /\ response.status = 200) =>
              /\ response.dbTime = SumTo(Dur, NumOps)
              /\ response.totalTime = SumTo(Dur, NumOps)

\* C7 witness: book-sequential has answered a run of five queries that each
\* took time.
SequentialAnsweredPositive ==
    /\ kind = "book" /\ method = "sequential"
    /\ pc = "responded" /\ response.status = 200
    /\ \A i \in OpIds : Dur[i] > 0

\* C17: a booking run answers success with a ride_id only if all five store
\* operations succeeded; once any operation has failed the answer is a
\* failure without ride_id.
FailuresAreSurfaced ==
    kind = "book" =>
        /\ (response.status = 200 \/ response.ride_id) =>
              /\ response.status = 200 /\ response.ride_id
              /\ \A i \in OpIds : ops[i].status = "fulfilled"
        /\ (\E i \in OpIds : ops[i].status = "rejected") =>
              /\ pc = "responded"
              /\ response.status = 500
              /\ ~response.ride_id

\* C17 witness: book-parallel has answered after its third query failed
\* and its first succeeded.
ParallelThirdRejected ==
    /\ kind = "book" /\ method = "parallel" /\ pc = "responded"
    /\ ops[1].status = "fulfilled" /\ ops[3].status = "rejected"

\* C18: the answer of a failed booking run names the operation that failed.
FailureNamesOperation ==
    (kind = "book" /\ pc = "responded" /\ response.status = 500) =>
        /\ response.operation \in OpIds
        /\ ops[response.operation].status = "rejected"

\* C19: a book-parallel run under a concurrency limit k < NumOps has at
\* most k operations in flight at any instant, so never all NumOps of them.
ParallelRespectsLimit ==
    (kind = "book" /\ method = "parallel") =>
        Cardinality(InFlight(ops)) < NumOps

\* C20: every operation is bounded by a timeout, so a booking run that is
\* waiting for its store always comes to an answer.
EveryRunCompletes ==
    (kind = "book" /\ pc = "awaiting") ~> (pc = "responded")

-----------------------------------------------------------------------------
(* The store statements of the two booking handlers *)

WalletSql == "SELECT wallet_balance FROM users WHERE id = ?"

TripSql ==
    "SELECT COUNT(*) as trip_count FROM rides WHERE user_id = ? AND status = \"completed\""

SurgeSql ==
    "SELECT AVG(surge_multiplier) as avg_surge FROM rides WHERE created_at > DATE_SUB(NOW(), INTERVAL 1 HOUR)"

LogSql ==
    "INSERT INTO ride_logs (user_id, action, details, created_at) VALUES (?, ?, ?, NOW())"

PaymentSql ==
    "SELECT id FROM user_payment_methods WHERE user_id = ? AND is_active = 1 LIMIT 1"

LogParams ==
    <<"userId", "'ride_request'", "JSON.stringify({ pickup, dropoff, ride_type })">>

\* The five db.execute calls of book-sequential, in statement order.
SequentialStatements ==
    <<[sql |-> WalletSql, params |-> <<"userId">>, inserts |-> ""],
      [sql |-> TripSql, params |-> <<"userId">>, inserts |-> ""],
      [sql |-> SurgeSql, params |-> <<>>, inserts |-> ""],
      [sql |-> LogSql, params |-> LogParams, inserts |-> "ride_logs"],
      [sql |-> PaymentSql, params |-> <<"userId">>, inserts |-> ""]>>

\* The five db.execute calls of book-parallel, in array order.
ParallelStatements ==
    <<[sql |-> WalletSql, params |-> <<"userId">>, inserts |-> ""],
      [sql |-> TripSql, params |-> <<"userId">>, inserts |-> ""],
      [sql |-> SurgeSql, params |-> <<>>, inserts |-> ""],
      [sql |-> LogSql, params |-> LogParams, inserts |-> "ride_logs"],
      [sql |-> PaymentSql, params |-> <<"userId">>, inserts |-> ""]>>

StatementsWithoutLog(m) ==
    IF m = "sequential" THEN SequentialStatements
    ELSE [ParallelStatements EXCEPT ![4] = ParallelStatements[5]]

Statements(m) ==
    IF m = "sequential" THEN SequentialStatements ELSE ParallelStatements

\* The statements a run has invoked so far, each with the number of calls.
Invoked(m, o) ==
    LET called == {i \in OpIds : o[i].status # "notStarted"}
        issued == {Statements(m)[i] : i \in called}
    IN [st \in issued |-> Cardinality({i \in called : Statements(m)[i] = st})]

\* The ride_logs rows a run has inserted, and those it may still insert.
RideLogRows(m, o) ==
    Cardinality({i \in OpIds : /\ Statements(m)[i].inserts = "ride_logs"
                               /\ o[i].status = "fulfilled"})

RideLogPending(m, o) ==
    Cardinality({i \in Due(o) : Statements(m)[i].inserts = "ride_logs"})

\* C21: a booking run that answers with an error has inserted no ride_logs
\* row and has no insert of one still to come.
FailedBookingLeavesNoLog ==
    (kind = "book" /\ pc = "responded" /\ response.status = 500) =>
        /\ RideLogRows(method, ops) = 0
        /\ RideLogPending(method, ops) = 0

\* C22: a booking run in which all five operations succeed invokes the same
\* five statements with the same parameters once each whichever handler
\* serves it, inserts exactly one ride_logs row, and answers status
\* 'requested' with operations = 5.
HandlersAgreeOnSuccess ==
    (kind = "book" /\ pc = "responded" /\ response.status = 200) =>
        /\ Invoked(method, ops) = Invoked("sequential", ops)
        /\ Invoked(method, ops) = Invoked("parallel", ops)
        /\ DOMAIN Invoked(method, ops)
               = {SequentialStatements[i] : i \in OpIds}
        /\ \A st \in DOMAIN Invoked(method, ops) : Invoked(method, ops)[st] = 1
        /\ RideLogRows(method, ops) = 1
        /\ response.rideStatus = "requested"
        /\ response.operations = 5

\* C22 witness: book-parallel has answered a run whose five operations all
\* succeeded, the insert settling last.
ParallelSucceededLogLast ==
    /\ kind = "book" /\ method = "parallel"
    /\ pc = "responded" /\ response.status = 200
    /\ ops[4].dur > ops[5].dur

-----------------------------------------------------------------------------
(* The benchmark routes: POST /benchmark/run and GET /benchmark/results *)

HistoryLimit == 10      \* if (benchmarkResults.length > 10) ... slice(-10)
Undefined == -1         \* the value of an array element that does not exist
Infinity == -2          \* minTime: Infinity

MaxHistoryRuns == 11    \* requests received, when the history is exercised
MaxOverlap == 2         \* requests received while another run is awaiting
MaxBenchRuns == 2       \* requests received, when the statistics are exercised
MaxRequests == 2        \* test requests started, over all benchmark runs
MaxResponseTime == 2    \* largest response time of a test request, in ms

Pending == 0            \* a promise of makeTestRequest that has not settled

\* arr.sort((a, b) => a - b)
RECURSIVE Insert(_, _)
Insert(sorted, x) ==
    IF sorted = <<>> THEN <<x>>
    ELSE IF x <= Head(sorted) THEN <<x>> \o sorted
    ELSE <<Head(sorted)>> \o Insert(Tail(sorted), x)

RECURSIVE Sort(_)
Sort(arr) ==
    IF arr = <<>> THEN <<>>
    ELSE Insert(Sort(SubSeq(arr, 1, Len(arr) - 1)), arr[Len(arr)])

RECURSIVE SeqSum(_)
SeqSum(arr) == IF arr = <<>> THEN 0 ELSE Head(arr) + SeqSum(Tail(arr))

\* arr[index] of a JavaScript array (0-indexed)
At(arr, index) ==
    IF index + 1 \in DOMAIN arr THEN arr[index + 1] ELSE Undefined

\* Math.floor(sortedTimes.length * 0.5 | 0.95 | 0.99), pct in hundredths
FloorIndex(n, pct) == (n * pct) \div 100

\* Math.ceil(sorted.length * p) - 1
CeilIndex(n, pct) == ((n * pct + 99) \div 100) - 1

\* PerformanceBenchmark.percentile(arr, p)
percentile(arr, pct) == At(Sort(arr), CeilIndex(Len(arr), pct))

\* The statistics POST /run derives from the settled test requests.
Results(r, endpoint, requests, responseTimes) ==
    LET sortedTimes == Sort(responseTimes)
        n == Len(sortedTimes)
    IN [run |-> r,
        endpoint |-> endpoint,
        totalRequests |-> requests,
        successfulRequests |-> n,
        failedRequests |-> 0,
        averageTime |-> IF n > 0 THEN [num |-> SeqSum(sortedTimes), den |-> n]
                        ELSE [num |-> 0, den |-> 1],
        minTime |-> IF n > 0 THEN sortedTimes[1] ELSE Infinity,
        maxTime |-> IF n > 0 THEN sortedTimes[n] ELSE 0,
        responseTimes |-> sortedTimes,
        p50 |-> At(sortedTimes, FloorIndex(n, 50)),
        p95 |-> At(sortedTimes, FloorIndex(n, 95)),
        p99 |-> At(sortedTimes, FloorIndex(n, 99))]

\* benchmarkResults.push(results)
Push(history, results) == Append(history, results)

\* if (benchmarkResults.length > 10) benchmarkResults = benchmarkResults.slice(-10)
KeepAll(history) == history

KeepFirst(history) ==
    IF Len(history) > HistoryLimit
    THEN SubSeq(history, 1, HistoryLimit)
    ELSE history

KeepLast(history) ==
    IF Len(history) > HistoryLimit
    THEN SubSeq(history, Len(history) - HistoryLimit + 1, Len(history))
    ELSE history

Awaiting == {r \in DOMAIN runs : runs[r].pc = "awaiting"}

\* The number of makeTestRequest calls made so far.
RECURSIVE TestRequestsStarted(_)
TestRequestsStarted(rs) ==
    IF rs = <<>> THEN 0
    ELSE (IF Head(rs).endpoint \in Methods THEN Head(rs).requests ELSE 0)
         + TestRequestsStarted(Tail(rs))

\* The runs that were received while another run was suspended at its await.
Overlapping == {r \in DOMAIN runs : runs[r].overlapped}

\* x.toFixed(1) of the number num / den (den > 0), in tenths: the nearest
\* tenth, a tie going away from zero.
ToFixed1(num, den) ==
    LET mag == IF num < 0 THEN -num ELSE num
        tenths == (mag * 20 + den) \div (2 * den)
    IN IF num < 0 THEN -tenths ELSE tenths

\* A JavaScript number that may be NaN or infinite (a division by zero).
Number(num, den) ==
    IF den = 0 THEN [finite |-> FALSE, tenths |-> 0]
    ELSE [finite |-> TRUE, tenths |-> ToFixed1(num, den)]

NoComparison ==
    [present |-> FALSE, sequential |-> 0, parallel |-> 0,
     percentage |-> Number(0, 1), timesSaved |-> Number(0, 1)]

IsSequential(e) == e.endpoint = "sequential"

IsParallel(e) == e.endpoint = "parallel"

\* generateComparison(): null unless the history holds a sequential and a
\* parallel result; otherwise the latest of each and the improvement
\* ((seq.averageTime - par.averageTime) / seq.averageTime) * 100.
generateComparison(history) ==
    LET sequentialResults == SelectSeq(history, IsSequential)
        parallelResults == SelectSeq(history, IsParallel)
    IN IF Len(sequentialResults) = 0 \/ Len(parallelResults) = 0
       THEN NoComparison
       ELSE LET ls == sequentialResults[Len(sequentialResults)]
                lp == parallelResults[Len(parallelResults)]
                a == ls.averageTime.num
                b == ls.averageTime.den
                c == lp.averageTime.num
                d == lp.averageTime.den
            IN [present |-> TRUE,
                sequential |-> ls.run,
                parallel |-> lp.run,
                percentage |-> Number((a * d - c * b) * 100, a * d),
                timesSaved |-> IF a = 0 THEN Number(0, 0)
                               ELSE Number(a * d - c * b, b * d)]

NoGet == [sent |-> FALSE, results |-> <<>>, comparison |-> NoComparison]

\* The handler after `await Promise.allSettled(promises)`, for run r with
\* the settled promises: it computes the statistics, appends them to the
\* history, trims the history and answers.  Logging results.p95.toFixed(2)
\* throws when there is no response time, which the catch clause answers
\* with 500.
Finish(runsNow, r, promises) ==
    LET results == Results(r, runsNow[r].endpoint, runsNow[r].requests,
                           promises)
        status == IF results.p95 = Undefined THEN 500 ELSE 200
    IN /\ benchmarkResults' = KeepLast(Push(benchmarkResults, results))
       /\ runs' = [runsNow EXCEPT ![r] = [@ EXCEPT !.pc = "done",
                                                   !.promises = <<>>,
                                                   !.status = status]]
       /\ completed' = IF status = 200 THEN Append(completed, r)
                       ELSE completed

\* POST /run.  An endpoint other than 'sequential' and 'parallel' is
\* answered 400.  Otherwise `requests` test requests are started and the
\* handler suspends at `await Promise.allSettled(promises)`; with no
\* promise to wait for it resumes in the same turn.
BenchmarkRunStart(endpoint, requests, limit, budget, overlap) ==
    /\ Len(runs) < limit
    /\ endpoint \in Methods => TestRequestsStarted(runs) + requests <= budget
    /\ Awaiting # {} => Cardinality(Overlapping) < overlap
    /\ LET r == Len(runs) + 1
           started == Append(runs,
               [pc |-> "awaiting", endpoint |-> endpoint,
                requests |-> requests,
                promises |-> [k \in 1..requests |-> Pending], status |-> 0,
                overlapped |-> Awaiting # {}])
       IN IF endpoint \notin Methods
          THEN /\ runs' = Append(runs,
                      [pc |-> "done", endpoint |-> endpoint,
                       requests |-> requests, promises |-> <<>>,
                       status |-> 400, overlapped |-> Awaiting # {}])
               /\ UNCHANGED <<benchmarkResults, completed>>
          ELSE IF requests = 0
          THEN Finish(started, r, <<>>)
          ELSE /\ runs' = started
               /\ UNCHANGED <<benchmarkResults, completed>>
    /\ lastGet' = NoGet
    /\ UNCHANGED bookVars
    /\ UNCHANGED loadVars
    /\ UNCHANGED appVars

\* One makeTestRequest of run r returns its elapsed time t; simulateDbQuery
\* only ever resolves, so the promise fulfils.  When it is the last one,
\* Promise.allSettled resolves and the handler resumes in the same turn.
TestRequestSettles(r, k, t) ==
    /\ runs[r].pc = "awaiting"
    /\ runs[r].promises[k] = Pending
    /\ LET promises == [runs[r].promises EXCEPT ![k] = t]
       IN IF \A x \in DOMAIN promises : promises[x] # Pending
          THEN Finish(runs, r, promises)
          ELSE /\ runs' = [runs EXCEPT ![r].promises = promises]
               /\ UNCHANGED <<benchmarkResults, completed>>
    /\ lastGet' = NoGet
    /\ UNCHANGED bookVars
    /\ UNCHANGED loadVars
    /\ UNCHANGED appVars

\* GET /results:
\* res.json({ results: benchmarkResults, comparison: generateComparison() })
GetResults ==
    /\ ~lastGet.sent
    /\ lastGet' = [sent |-> TRUE, results |-> benchmarkResults,
                   comparison |-> generateComparison(benchmarkResults)]
    /\ UNCHANGED <<benchmarkResults, runs, completed>>
    /\ UNCHANGED bookVars
    /\ UNCHANGED loadVars
    /\ UNCHANGED appVars

NextBench(limit, budget, overlap, Endpoints, Requests, Times) ==
    \/ \E e \in Endpoints, n \in Requests :
           BenchmarkRunStart(e, n, limit, budget, overlap)
    \/ \E r \in Awaiting : \E k \in DOMAIN runs[r].promises, t \in Times :
           TestRequestSettles(r, k, t)
    \/ GetResults

\* Many runs of one test request each: the history fills and evicts.
NextHistory ==
    NextBench(MaxHistoryRuns, MaxHistoryRuns, MaxOverlap, {"sequential"},
              {1}, {1})

SpecHistory == Init /\ [][NextHistory]_vars

\* Few runs with every kind of input: the statistics and the error answers.
NextStats ==
    NextBench(MaxBenchRuns, MaxRequests, MaxBenchRuns,
              {"sequential", "parallel", "fast"}, 0..MaxRequests,
              1..MaxResponseTime)

SpecBench == Init /\ [][NextStats]_vars

-----------------------------------------------------------------------------
(* Properties of the benchmark history (checked under SpecHistory) *)

Min(a, b) == IF a < b THEN a ELSE b

\* C8: the history never holds more than HistoryLimit results, in any state
\* and in any answer of GET /results.
HistoryBounded ==
    /\ Len(benchmarkResults) <= HistoryLimit
    /\ lastGet.sent => Len(lastGet.results) <= HistoryLimit

\* C8 witness: GET /results answers with a full history after more than
\* HistoryLimit runs have been appended.
GetSeesFullHistory ==
    /\ lastGet.sent
    /\ Len(lastGet.results) = HistoryLimit
    /\ Len(completed) > HistoryLimit

\* C9: with overlapping runs that all succeed, the history is exactly the
\* last min(n, HistoryLimit) of the n completed runs, in completion order,
\* each once, and every completed run was appended once.
HistoryIsRecentCompletions ==
    LET n == Len(completed)
        k == Min(n, HistoryLimit)
    IN /\ Len(benchmarkResults) = k
       /\ \A i \in 1..k : benchmarkResults[i].run = completed[n - k + i]
       /\ \A i, j \in 1..k :
              benchmarkResults[i].run = benchmarkResults[j].run => i = j
       /\ Cardinality({completed[i] : i \in 1..n}) = n
       /\ {completed[i] : i \in 1..n}
              = {r \in DOMAIN runs : runs[r].pc = "done" /\ runs[r].status = 200}

\* C9 witness: more than HistoryLimit runs have completed, two of them in
\* the opposite order of their arrival, and the oldest has been evicted.
EvictedOutOfOrder ==
    /\ Len(completed) > HistoryLimit
    /\ \E i, j \in DOMAIN completed : i < j /\ completed[i] > completed[j]
    /\ benchmarkResults[1].run # completed[1]

-----------------------------------------------------------------------------
(* Properties of the statistics (checked under SpecBench) *)

\* C10: every percentile POST /benchmark/run reports is
\* sorted(durations)[ceil(n * p) - 1] of its n > 0 response times.
PercentilesAreNearestRank ==
    \A i \in DOMAIN benchmarkResults :
        LET e == benchmarkResults[i]
            n == Len(e.responseTimes)
        IN n > 0 =>
            /\ e.p50 = percentile(e.responseTimes, 50)
            /\ e.p95 = percentile(e.responseTimes, 95)
            /\ e.p99 = percentile(e.responseTimes, 99)

-----------------------------------------------------------------------------
(* The benchmark script: PerformanceBenchmark.makeRequest and runLoadTest,   *)
(* with the booking handler that serves each request.  This part carries no *)
(* clock: a store operation may settle at any moment or never, and the      *)
(* axios timer of a pending request may fire at any moment.                 *)

MaxUsers == 2           \* largest concurrentUsers
MaxPerUser == 2         \* largest requestsPerUser
MaxLoadRequests == 4    \* most requests of one load test
MaxFairRequests == 2    \* the same, where termination is checked
MaxParallelLoad == 1    \* most requests of one load test of book-parallel

TimeoutMessage == "timeout of 30000ms exceeded"

\* x.toFixed(2) of the number num / den (num >= 0, den > 0), in hundredths.
ToFixed2(num, den) == (num * 200 + den) \div (2 * den)

\* (successful.length / promises.length * 100).toFixed(2)
SuccessRate(successful, total) ==
    IF total = 0 THEN [finite |-> FALSE, hundredths |-> 0]
    ELSE [finite |-> TRUE, hundredths |-> ToFixed2(successful * 100, total)]

\* this.makeRequest(endpoint) up to its await: one axios.post is sent, and
\* the handler that receives it runs to its first await.  `answer` is the
\* status the handler has answered (0: none yet), `invoked` counts the
\* db.execute calls made for each operation.
MakeRequest(endpoint) ==
    [status |-> "pending", success |-> FALSE, error |-> "", posts |-> 1,
     answer |-> 0,
     ops |-> IF endpoint = "sequential"
             THEN LaunchAwaited(AllNotStarted, 1, 0, 0)
             ELSE LaunchAll(AllNotStarted, 0, [i \in OpIds |-> 0]),
     invoked |-> IF endpoint = "sequential"
                 THEN [i \in OpIds |-> IF i = 1 THEN 1 ELSE 0]
                 ELSE [i \in OpIds |-> 1]]

\* The nested loops of runLoadTest: promises.push(this.makeRequest(endpoint))
\* concurrentUsers * requestsPerUser times, without an await in between.
IssueFirstOnly(endpoint, concurrentUsers, requestsPerUser) ==
    <<MakeRequest(endpoint)>>

IssueAll(endpoint, concurrentUsers, requestsPerUser) ==
    [k \in 1..(concurrentUsers * requestsPerUser) |-> MakeRequest(endpoint)]

\* makeRequest returns { success: true, ... }
Responded(p) == [p EXCEPT !.status = "fulfilled", !.success = TRUE]

\* The catch clause of makeRequest: return { success: false, ..., error }
CaughtAndRetried(p, error) ==
    IF p.posts = 1
    THEN [p EXCEPT !.posts = 2, !.answer = 0]
    ELSE [p EXCEPT !.status = "fulfilled", !.success = FALSE,
                   !.error = error]

Caught(p, error) ==
    [p EXCEPT !.status = "fulfilled", !.success = FALSE, !.error = error]

\* The option timeout: 30000 of axios.post: the pending request is aborted
\* and the awaited promise rejects into the catch clause.
NoTimeout(p) == p

AxiosTimeout(p) == Caught(p, TimeoutMessage)

\* The handler serving request p when its store operation i settles:
\* book-sequential launches the next operation, answers 200 after the fifth
\* or answers 500 from its catch clause; book-parallel answers 500 on the
\* first rejection and 200 once every operation has fulfilled.
Served(endpoint, p, i, ok) ==
    LET settled == Settle(p.ops, i, ok)
    IN IF endpoint = "sequential"
       THEN IF ~ContinuesAfter(ok)
            THEN [p EXCEPT !.ops = settled, !.answer = 500]
            ELSE IF i < NumOps
            THEN [p EXCEPT !.ops = LaunchAwaited(settled, i + 1, 0, 0),
                           !.invoked[i + 1] = @ + 1]
            ELSE [p EXCEPT !.ops = settled, !.answer = 200]
       ELSE IF p.answer = 0 /\ ~ok
            THEN [p EXCEPT !.ops = settled, !.answer = 500]
            ELSE IF p.answer = 0 /\ AllFulfilled(settled)
            THEN [p EXCEPT !.ops = settled, !.answer = 200]
            ELSE [p EXCEPT !.ops = settled]

\* The answer reaches makeRequest if it is still waiting: a 2xx status
\* fulfils the awaited axios.post, any other status rejects it with
\* error.response.data.message.
Received(endpoint, before, after) ==
    IF before.status = "pending" /\ before.answer = 0 /\ after.answer # 0
    THEN IF after.answer = 200 THEN Responded(after)
         ELSE Caught(after, IF endpoint = "sequential"
                            THEN "Failed to book ride (sequential)"
                            ELSE "Failed to book ride (parallel)")
    ELSE after

\* Promise.allSettled(promises) resolves once no promise is pending.
AnySettled(ps) == \E k \in DOMAIN ps : ps[k].status # "pending"

AllSettled(ps) == \A k \in DOMAIN ps : ps[k].status # "pending"

\* results.filter(r => r.status === 'fulfilled' && r.value.success)
IsSuccessful(p) == p.status = "fulfilled" /\ p.success

\* results.filter(r => r.status === 'rejected' || !r.value.success)
IsRejected(p) == p.status = "rejected"

IsFailed(p) == p.status = "rejected" \/ ~p.success

\* The stats object runLoadTest builds from the settled promises (its
\* timing fields are left out: this part has no clock).
Stats(l, ps) ==
    LET successful == SelectSeq(ps, IsSuccessful)
        failed == SelectSeq(ps, IsFailed)
    IN [returned |-> TRUE,
        endpoint |-> l.endpoint,
        concurrentUsers |-> l.concurrentUsers,
        requestsPerUser |-> l.requestsPerUser,
        totalRequests |-> Len(ps),
        successfulRequests |-> Len(successful),
        failedRequests |-> Len(failed),
        successRate |-> SuccessRate(Len(successful), Len(ps))]

\* runLoadTest after a promise has settled: it stays suspended at
\* `await Promise.allSettled(promises)` until the last one, and then builds
\* its stats and returns in the same turn.
LoadResumes(ps) ==
    /\ loadPromises' = ps
    /\ IF AllSettled(ps)
       THEN /\ load' = [load EXCEPT !.pc = "done"]
            /\ stats' = Stats(load, ps)
       ELSE UNCHANGED <<load, stats>>

\* runLoadTest(endpoint, concurrentUsers, requestsPerUser) up to its await.
\* runFullBenchmark calls it again only after the previous call returned.
RunLoadTestStart(endpoint, concurrentUsers, requestsPerUser, budget) ==
    /\ load.pc # "awaiting"
    /\ concurrentUsers * requestsPerUser <= budget
    /\ endpoint = "parallel" =>
           concurrentUsers * requestsPerUser <= MaxParallelLoad
    /\ load' = [pc |-> "awaiting", endpoint |-> endpoint,
                concurrentUsers |-> concurrentUsers,
                requestsPerUser |-> requestsPerUser]
    /\ loadPromises' = IssueAll(endpoint, concurrentUsers, requestsPerUser)
    /\ stats' = NoStats
    /\ UNCHANGED <<bookVars, benchVars>>
    /\ UNCHANGED appVars

\* Store operation i of the handler serving request k settles.  A handler
\* is followed until makeRequest has returned: what it does afterwards does
\* not reach the script.
StoreOperationSettles(k, i, ok) ==
    /\ load.pc = "awaiting"
    /\ loadPromises[k].status = "pending"
    /\ i \in InFlight(loadPromises[k].ops)
    /\ LET p == loadPromises[k]
           q == Received(load.endpoint, p, Served(load.endpoint, p, i, ok))
       IN LoadResumes([loadPromises EXCEPT ![k] = q])
    /\ UNCHANGED <<bookVars, benchVars>>
    /\ UNCHANGED appVars

\* The axios timer of request k fires before an answer has arrived.
RequestTimesOut(k) ==
    /\ load.pc = "awaiting"
    /\ k \in DOMAIN loadPromises
    /\ loadPromises[k].status = "pending"
    /\ LoadResumes([loadPromises EXCEPT ![k] = AxiosTimeout(@)])
    /\ UNCHANGED <<bookVars, benchVars>>
    /\ UNCHANGED appVars

NextScript(budget) ==
    \/ \E e \in Methods, u \in 1..MaxUsers, r \in 1..MaxPerUser :
           RunLoadTestStart(e, u, r, budget)
    \/ \E k \in DOMAIN loadPromises, i \in OpIds, ok \in BOOLEAN :
           StoreOperationSettles(k, i, ok)
    \/ \E k \in DOMAIN loadPromises : RequestTimesOut(k)

\* The two load drivers, the script and POST /benchmark/run: they run in
\* different processes and share no state, so either one is followed.
NextDrivers(budget) ==
    \/ /\ runs = <<>>
       /\ NextScript(budget)
    \/ /\ load.pc = "idle"
       /\ NextStats

NextLoad == NextDrivers(MaxLoadRequests)

SpecLoad == Init /\ [][NextLoad]_vars

NextLoadFair == NextDrivers(MaxFairRequests)

\* The timer of a pending request is armed when axios.post is called and
\* the event loop runs it when it is due; the store and the server owe no
\* answer.
SpecLoadFair ==
    /\ Init /\ [][NextLoadFair]_vars
    /\ \A k \in 1..MaxFairRequests : WF_vars(RequestTimesOut(k))

-----------------------------------------------------------------------------
(* Properties of the load drivers (checked under SpecLoad, SpecLoadFair) *)

Expected == load.concurrentUsers * load.requestsPerUser

Succeeded == {k \in DOMAIN loadPromises : loadPromises[k].success}

Errored == {k \in DOMAIN loadPromises : loadPromises[k].error # ""}

TimedOut == {k \in DOMAIN loadPromises : loadPromises[k].error = TimeoutMessage}

StillPending == {k \in DOMAIN loadPromises : loadPromises[k].status = "pending"}

\* C11: a load test issues exactly concurrentUsers * requestsPerUser
\* requests and its result counts each of them once, as successful or as
\* failed, so that successfulRequests + failedRequests = totalRequests; a
\* result of POST /benchmark/run likewise counts each of its `requests`
\* test requests once.
EachRequestCountedOnce ==
    /\ load.pc # "idle" => Len(loadPromises) = Expected
    /\ load.pc = "done" =>
          /\ stats.totalRequests = Expected
          /\ stats.successfulRequests = Cardinality(Succeeded)
          /\ stats.failedRequests = Cardinality(Errored)
          /\ Succeeded \cap Errored = {}
          /\ Succeeded \cup Errored = DOMAIN loadPromises
          /\ stats.successfulRequests + stats.failedRequests
                 = stats.totalRequests
    /\ \A x \in DOMAIN benchmarkResults :
          LET e == benchmarkResults[x]
          IN /\ e.totalRequests = runs[e.run].requests
             /\ Len(e.responseTimes) = e.successfulRequests
             /\ e.successfulRequests + e.failedRequests = e.totalRequests

\* C11 witness: a load test of 2 users x 2 requests has returned with both
\* successful and failed requests.
LoadDoneMixed ==
    /\ load.pc = "done"
    /\ load.concurrentUsers = 2 /\ load.requestsPerUser = 2
    /\ stats.successfulRequests > 0 /\ stats.failedRequests > 0

\* C12: the load driver launches every request in its first turn, before
\* any of them has completed, whatever the endpoint: while no request of a
\* load test of book-sequential has returned, every one of them has an
\* operation in flight; only within one request is at most one operation
\* in flight, each started after its predecessors fulfilled.  POST
\* /benchmark/run likewise holds all its test requests while it waits.
LoadLaunchesAllAtOnce ==
    /\ load.pc # "idle" => Len(loadPromises) = Expected
    /\ (load.pc = "awaiting" /\ load.endpoint = "sequential") =>
          /\ \A k \in DOMAIN loadPromises :
                LET o == loadPromises[k].ops
                IN /\ Cardinality(InFlight(o)) <= 1
                   /\ \A i \in OpIds : o[i].status # "notStarted" =>
                         \A j \in 1..(i - 1) : o[j].status = "fulfilled"
          /\ StillPending = DOMAIN loadPromises =>
                \A k \in DOMAIN loadPromises :
                    InFlight(loadPromises[k].ops) # {}
    /\ \A r \in Awaiting : Len(runs[r].promises) = runs[r].requests

\* C12 witness: two requests of one load test of book-sequential are
\* pending with different operations in flight.
LoadRequestsOverlap ==
    /\ load.pc = "awaiting" /\ load.endpoint = "sequential"
    /\ Len(loadPromises) >= 2
    /\ StillPending = DOMAIN loadPromises
    /\ loadPromises[1].ops[3].status = "inFlight"
    /\ loadPromises[2].ops[1].status = "inFlight"

\* C13: runLoadTest computes its statistics only once every issued request
\* has settled; a request that fails leaves the load test waiting for the
\* others, and the statistics cover every request.
LoadWaitsForAll ==
    /\ load.pc = "done" <=> (load.pc # "idle" /\ StillPending = {})
    /\ stats.returned <=> load.pc = "done"
    /\ stats.returned =>
          /\ stats.totalRequests = Len(loadPromises)
          /\ stats.successfulRequests = Cardinality(Succeeded)
    /\ \A x \in DOMAIN benchmarkResults :
          LET e == benchmarkResults[x]
          IN /\ runs[e.run].pc = "done"
             /\ Len(e.responseTimes) = runs[e.run].requests
             /\ \A y \in DOMAIN e.responseTimes : e.responseTimes[y] # Pending

\* C13 witness: one request has failed while another is still pending, and
\* the load test is still waiting.
LoadFailureWhilePending ==
    /\ load.pc = "awaiting"
    /\ Errored # {}
    /\ StillPending # {}
    /\ Succeeded # {}

\* C14: a load test that has started always returns, and a request that
\* timed out is counted as failed, not as successful.
LoadTestCompletes ==
    /\ (load.pc = "awaiting") ~> (load.pc = "done")
    /\ [](load.pc = "done" =>
            /\ TimedOut \cap Succeeded = {}
            /\ stats.failedRequests >= Cardinality(TimedOut))

\* C14 witness: the load test has returned although the handler of one
\* request never answered; that request timed out.
LoadDoneAfterTimeout ==
    /\ load.pc = "done"
    /\ \E k \in TimedOut : loadPromises[k].answer = 0
    /\ stats.failedRequests > 0

\* C15: every request of a load test is posted once and every operation of
\* the handler serving it is invoked at most once; a request that failed or
\* timed out stays failed and lowers successRate.
NothingIsRetried ==
    /\ \A k \in DOMAIN loadPromises :
          /\ loadPromises[k].posts = 1
          /\ \A i \in OpIds : loadPromises[k].invoked[i] <= 1
    /\ load.pc = "done" =>
          /\ stats.failedRequests = Cardinality(Errored)
          /\ stats.successRate
                 = SuccessRate(stats.totalRequests - Cardinality(Errored),
                               stats.totalRequests)
          /\ Errored # {} => stats.successRate.hundredths < 10000

\* C15 witness: a load test has returned with one request answered 500 and
\* another timed out.
LoadDoneWithFailures ==
    /\ load.pc = "done"
    /\ TimedOut # {}
    /\ Errored \ TimedOut # {}
    /\ Succeeded # {}

-----------------------------------------------------------------------------
(* The comparison of GET /benchmark/results *)

MaxCompared == 3        \* test requests started, when runs are compared

\* Two runs of one or more test requests each, of either endpoint.
NextCompare ==
    NextBench(MaxBenchRuns, MaxCompared, MaxBenchRuns, Methods,
              1..MaxCompared, 1..MaxResponseTime)

SpecCompare == Init /\ [][NextCompare]_vars

\* C16: a comparison is never computed from a sequential and a parallel
\* result whose request counts differ.
ComparisonOnlyOfEqualShape ==
    (lastGet.sent /\ lastGet.comparison.present) =>
        runs[lastGet.comparison.sequential].requests
            = runs[lastGet.comparison.parallel].requests

\* C27: a step in which POST /benchmark/run answers 400 or 500 leaves
\* benchmarkResults as it was.
ErrorAnswerKeepsHistory ==
    [][(\E r \in DOMAIN runs' :
            /\ runs'[r].status \in {400, 500}
            /\ r \in DOMAIN runs => runs[r].status = 0)
        => benchmarkResults' = benchmarkResults]_vars


(***************************************************************************)
(* RideBooking.tsx: the debounced fare estimate.  A version of the inputs  *)
(* is the number of changes of pickupLocation, dropoffLocation or rideType *)
(* that led to it; a timer, a call and an estimate are named by the        *)
(* version of the inputs their closure read.                               *)
(***************************************************************************)
MaxInputs == 4          \* changes of the inputs in one run

NoTimer == 0

NoEstimate == 0

\* clearTimeout(estimateTimeoutRef.current): the pending timer never fires.
ClearTimeout(timer) == NoTimer

\* The useEffect on [pickupLocation, dropoffLocation, rideType]: the cleanup
\* of the previous run clears its timer, then the effect either arms a new
\* timer for the new inputs or resets the estimate and the error.
InputsChange(complete) ==
    /\ inputs.version < MaxInputs
    /\ inputs' = [version |-> inputs.version + 1, complete |-> complete]
    /\ IF complete
       THEN /\ estimateTimeoutRef' = inputs.version + 1
            /\ UNCHANGED <<estimate, estimateError>>
       ELSE /\ estimateTimeoutRef' = ClearTimeout(estimateTimeoutRef)
            /\ estimate' = NoEstimate
            /\ estimateError' = FALSE
    /\ UNCHANGED <<estimateCalls, isEstimating>>
    /\ UNCHANGED <<socketVars, authVars, rideVars>>
    /\ UNCHANGED orchestrationVars

\* The 500 ms timer fires and getEstimate runs up to its await.
DebounceFires ==
    /\ estimateTimeoutRef # NoTimer
    /\ isEstimating' = TRUE
    /\ estimateError' = FALSE
    /\ estimateCalls' = estimateCalls \cup {estimateTimeoutRef}
    /\ estimateTimeoutRef' = NoTimer
    /\ UNCHANGED <<inputs, estimate>>
    /\ UNCHANGED <<socketVars, authVars, rideVars>>
    /\ UNCHANGED orchestrationVars

\* rideAPI.getEstimate settles and getEstimate continues: try or catch, then
\* finally.
GetEstimateResumes(call, ok) ==
    /\ call \in estimateCalls
    /\ estimateCalls' = estimateCalls \ {call}
    /\ IF ok
       THEN estimate' = call /\ UNCHANGED estimateError
       ELSE estimateError' = TRUE /\ UNCHANGED estimate
    /\ isEstimating' = FALSE
    /\ UNCHANGED <<inputs, estimateTimeoutRef>>
    /\ UNCHANGED <<socketVars, authVars, rideVars>>
    /\ UNCHANGED orchestrationVars

NextEstimate ==
    \/ \E complete \in BOOLEAN : InputsChange(complete)
    \/ DebounceFires
    \/ \E call \in 1..MaxInputs, ok \in BOOLEAN : GetEstimateResumes(call, ok)

SpecEstimate == Init /\ [][NextEstimate]_vars

\* C23: estimates are stored in request order (a stored estimate is never
\* replaced by the estimate of earlier inputs) and isEstimating is false
\* only when no estimate request is in flight.
EstimatesAppliedInOrder ==
    [][/\ (estimate # NoEstimate /\ estimate' # NoEstimate)
            => estimate' >= estimate
       /\ ~isEstimating' => estimateCalls' = {}]_vars


(***************************************************************************)
(* Real-time driver tracking: the connectedDrivers Map and the socket      *)
(* handlers.  A Map iterates in insertion order and set() on a present key *)
(* keeps the key's position, so the Map is a sequence of entries.  The     *)
(* location, status and lastUpdate of an entry are left out: no handler    *)
(* below reads them.                                                       *)
(***************************************************************************)
MaxSockets == 2         \* connections in one run

SocketIds == 1..MaxSockets

Keys(map) == {map[i].driverId : i \in DOMAIN map}

IndexOf(map, driverId) ==
    CHOOSE i \in DOMAIN map : map[i].driverId = driverId

\* connectedDrivers.set(driverId, {socketId: socket.id, ...})
MapSet(map, driverId, socketId) ==
    LET entry == [driverId |-> driverId, socketId |-> socketId]
    IN  IF driverId \in Keys(map)
        THEN [map EXCEPT ![IndexOf(map, driverId)] = entry]
        ELSE Append(map, entry)

\* connectedDrivers.delete(driverId)
MapDelete(map, driverId) ==
    LET i == IndexOf(map, driverId)
    IN  SubSeq(map, 1, i - 1) \o SubSeq(map, i + 1, Len(map))

OwnsAny(driver, socketId) == TRUE

\* driver.socketId === socket.id
Owns(driver, socketId) == driver.socketId = socketId

\* The entries the loop of the disconnect handler reaches and matches: it
\* breaks at the first match.
Matched(map, socketId) ==
    LET owned == {i \in DOMAIN map : Owns(map[i], socketId)}
    IN  IF owned = {} THEN {} ELSE {SetMin(owned)}

DriverMoved(driverId) == [event |-> "driver-moved", driverId |-> driverId]

DriverOffline(driverId) == [event |-> "driver-offline", driverId |-> driverId]

\* io.on('connection'): socket ids are never reused.
Connection ==
    LET socketId == Cardinality(sockets \cup closed) + 1
    IN  /\ socketId \in SocketIds
        /\ sockets' = sockets \cup {socketId}
        /\ emitted' = <<>>
        /\ UNCHANGED <<closed, connectedDrivers, lastReporter, reported>>
        /\ UNCHANGED <<uiVars, authVars, rideVars>>
        /\ UNCHANGED orchestrationVars

\* socket.on('driver-location-update')
DriverLocationUpdate(socketId, driverId) ==
    /\ socketId \in sockets
    /\ connectedDrivers' = MapSet(connectedDrivers, driverId, socketId)
    /\ emitted' = <<DriverMoved(driverId)>>
    /\ lastReporter' = [lastReporter EXCEPT ![driverId] = socketId]
    /\ reported' = reported \cup {<<socketId, driverId>>}
    /\ UNCHANGED <<sockets, closed>>
    /\ UNCHANGED <<uiVars, authVars, rideVars>>
    /\ UNCHANGED orchestrationVars

\* socket.on('disconnect')
Disconnect(socketId) ==
    /\ socketId \in sockets
    /\ sockets' = sockets \ {socketId}
    /\ closed' = closed \cup {socketId}
    /\ LET matched == Matched(connectedDrivers, socketId)
       IN  IF matched = {}
           THEN /\ emitted' = <<>>
                /\ UNCHANGED connectedDrivers
           ELSE LET driverId ==
                        connectedDrivers[CHOOSE i \in matched : TRUE].driverId
                IN  /\ connectedDrivers' =
                            MapDelete(connectedDrivers, driverId)
                    /\ emitted' = <<DriverOffline(driverId)>>
    /\ UNCHANGED <<lastReporter, reported>>
    /\ UNCHANGED <<uiVars, authVars, rideVars>>
    /\ UNCHANGED orchestrationVars

NextSockets ==
    \/ Connection
    \/ \E socketId \in SocketIds, driverId \in DriverIds :
            DriverLocationUpdate(socketId, driverId)
    \/ \E socketId \in SocketIds : Disconnect(socketId)

SpecSockets == Init /\ [][NextSockets]_vars

Entries(map) == {map[i] : i \in DOMAIN map}

Events(evs) == {evs[i] : i \in DOMAIN evs}

\* C24: when a socket disconnects, the registry afterwards holds no entry of
\* that socket, and driver-offline is broadcast for every entry removed.
DisconnectRemovesAllOfSocket ==
    [][\A socketId \in closed' \ closed :
          /\ \A entry \in Entries(connectedDrivers') :
                entry.socketId # socketId
          /\ \A entry \in Entries(connectedDrivers) \ Entries(connectedDrivers') :
                DriverOffline(entry.driverId) \in Events(emitted')]_vars

\* C25: an entry carries the socket of the driver's most recent update, and
\* the disconnect of a socket leaves every entry of another socket in the
\* registry and broadcasts no driver-offline for its driver.
EntryBelongsToLastReporter ==
    [][/\ \A entry \in Entries(connectedDrivers') :
              entry.socketId = lastReporter'[entry.driverId]
       /\ \A socketId \in closed' \ closed :
              \A entry \in Entries(connectedDrivers) :
                  entry.socketId # socketId =>
                      /\ entry \in Entries(connectedDrivers')
                      /\ DriverOffline(entry.driverId) \notin Events(emitted')]_vars

\* C25 witness: a socket that reported a driver earlier has disconnected;
\* the driver, since reported by a socket still connected, is in the
\* registry and nothing was broadcast.
EarlierReporterLeft ==
    \E driverId \in DriverIds, a \in closed, b \in sockets :
        /\ <<a, driverId>> \in reported
        /\ lastReporter[driverId] = b
        /\ [driverId |-> driverId, socketId |-> b] \in Entries(connectedDrivers)
        /\ emitted = <<>>


(***************************************************************************)
(* auth.js, the role-aware routes: POST /auth/signup and POST /auth/login  *)
(* over the tables users and drivers.  A row keeps the columns id, email   *)
(* and password; a signup is served in three turns (received, the SELECT   *)
(* answered, the INSERT answered), and the two SELECTs of a login read     *)
(* tables that only grow, so a login is served in one.                     *)
(***************************************************************************)
MaxSignups == 2         \* signup requests in one run

MaxLogins == 2          \* login requests in one run

Emails == {"a@example.com", "b@example.com"}

\* What a login may send: the password every account signs up with, and
\* another one.
Passwords == {"secret", "guess"}

SignupPasswords == {"secret"}

Roles == {"rider", "driver"}

\* bcrypt.hash(password, saltRounds)
BcryptHash(password) == [bcrypt |-> password]

\* bcrypt.compare(password, user.password)
BcryptCompare(password, hash) == hash = BcryptHash(password)

\* SELECT ... WHERE email = ?
WhereEmail(table, email) == {row \in table : row.email = email}

\* The columns of selectFields that the model keeps.
SelectFields == {"id", "email"}

Select(row, fields) == [f \in fields |-> row[f]]

\* const { password: _, ...userWithoutPassword } = user
WithoutPassword(row) == [f \in DOMAIN row \ {"password"} |-> row[f]]

\* { ...user, role }
Formatted(user, role) ==
    [f \in DOMAIN user \cup {"role"} |-> IF f = "role" THEN role ELSE user[f]]

\* jwt.sign({ id, email, role })
Token(id, email, role) == [id |-> id, email |-> email, role |-> role]

NoAnswer == [status |-> 0, message |-> "", token |-> <<>>, user |-> <<>>]

Answer(status, message) ==
    [status |-> status, message |-> message, token |-> <<>>, user |-> <<>>]

AlreadyExists == Answer(400, "User already exists with this email")

SignupFailed == Answer(500, "Failed to create user")

InvalidCredentials == Answer(400, "Invalid email or password")

NoSuchAccount == Answer(400, "No account with this email")

\* if (!user) return res.status(400).json(...)
NotFound == InvalidCredentials

\* if (!isValidPassword) return res.status(400).json(...)
WrongPassword == InvalidCredentials

Created(row, role) ==
    [status |-> 201, message |-> "User created successfully",
     token |-> Token(row.id, row.email, role),
     user |-> Formatted(Select(row, SelectFields), role)]

LoggedIn(row, role) ==
    [status |-> 200, message |-> "Login successful",
     token |-> Token(row.id, row.email, role),
     user |-> Formatted(WithoutPassword(row), role)]

\* The request passes validateSignupWithRole and the handler sends its
\* SELECT on users.
SignupReceived(email, password, role) ==
    /\ Len(signups) < MaxSignups
    /\ signups' = Append(signups,
            [email |-> email, password |-> password, role |-> role,
             pc |-> "checking", response |-> NoAnswer])
    /\ UNCHANGED <<users, drivers, logins>>
    /\ UNCHANGED <<uiVars, socketVars, rideVars>>
    /\ UNCHANGED orchestrationVars

\* 'SELECT id FROM users WHERE email = ?' is answered: 400, or the handler
\* hashes the password and sends its INSERT.
SignupChecked(k) ==
    /\ k \in DOMAIN signups
    /\ signups[k].pc = "checking"
    /\ LET existingUsers == WhereEmail(users, signups[k].email)
       IN  signups' =
               IF existingUsers # {}
               THEN [signups EXCEPT ![k].pc = "done",
                                    ![k].response = AlreadyExists]
               ELSE [signups EXCEPT ![k].pc = "inserting"]
    /\ UNCHANGED <<users, drivers, logins>>
    /\ UNCHANGED <<uiVars, socketVars, rideVars>>
    /\ UNCHANGED orchestrationVars

\* The INSERT is answered: the UNIQUE key on email of the table rejects it
\* (500), or the row is stored, read back without its password and sent.
SignupInserted(k) ==
    /\ k \in DOMAIN signups
    /\ signups[k].pc = "inserting"
    /\ LET req == signups[k]
           row == [id |-> k, email |-> req.email,
                   password |-> BcryptHash(req.password)]
           table == IF req.role = "rider" THEN users ELSE drivers
       IN  IF WhereEmail(table, req.email) # {}
           THEN /\ signups' = [signups EXCEPT ![k].pc = "done",
                                              ![k].response = SignupFailed]
                /\ UNCHANGED <<users, drivers>>
           ELSE /\ signups' =
                        [signups EXCEPT ![k].pc = "done",
                                        ![k].response = Created(row, req.role)]
                /\ IF req.role = "rider"
                   THEN users' = users \cup {row} /\ UNCHANGED drivers
                   ELSE drivers' = drivers \cup {row} /\ UNCHANGED users
    /\ UNCHANGED logins
    /\ UNCHANGED <<uiVars, socketVars, rideVars>>
    /\ UNCHANGED orchestrationVars

\* POST /auth/login: the users table first, then the drivers table.
Login(email, password) ==
    /\ Len(logins) < MaxLogins
    /\ LET riders == WhereEmail(users, email)
           found == IF riders # {} THEN riders ELSE WhereEmail(drivers, email)
           role == IF riders # {} THEN "rider" ELSE "driver"
       IN  IF found = {}
           THEN logins' = Append(logins,
                    [email |-> email, password |-> password,
                     found |-> FALSE, response |-> NotFound])
           ELSE LET user == CHOOSE row \in found : TRUE
                IN  logins' = Append(logins,
                        [email |-> email, password |-> password,
                         found |-> TRUE,
                         response |->
                            IF BcryptCompare(password, user.password)
                            THEN LoggedIn(user, role)
                            ELSE WrongPassword])
    /\ UNCHANGED <<users, drivers, signups>>
    /\ UNCHANGED <<uiVars, socketVars, rideVars>>
    /\ UNCHANGED orchestrationVars

NextAuth ==
    \/ \E email \in Emails, password \in SignupPasswords, role \in Roles :
            SignupReceived(email, password, role)
    \/ \E k \in 1..MaxSignups : SignupChecked(k)
    \/ \E k \in 1..MaxSignups : SignupInserted(k)
    \/ \E email \in Emails, password \in Passwords : Login(email, password)

SpecAuth == Init /\ [][NextAuth]_vars

Accounts(email) ==
    {<<"rider", row>> : row \in WhereEmail(users, email)}
        \cup {<<"driver", row>> : row \in WhereEmail(drivers, email)}

\* C26: whatever signups were served and however they interleaved, at most
\* one account across users and drivers holds a given email.
OneAccountPerEmail ==
    \A email \in Emails : Cardinality(Accounts(email)) <= 1

Responses ==
    {signups[k].response : k \in DOMAIN signups}
        \cup {logins[k].response : k \in DOMAIN logins}

\* C28: two logins that fail with the same email and password, one when the
\* email is registered and one when it is not, get the same status and body,
\* which is 400 'Invalid email or password'; and no signup or login response
\* carries the password column, the only place of a stored hash.
LoginHidesRegistration ==
    /\ \A i, j \in DOMAIN logins :
          (/\ logins[i].response.status # 200
           /\ logins[j].response.status # 200
           /\ logins[i].email = logins[j].email
           /\ logins[i].password = logins[j].password)
              => /\ logins[i].response = logins[j].response
                 /\ logins[i].response.status = 400
                 /\ logins[i].response.message = "Invalid email or password"
    /\ \A answer \in Responses :
          /\ "password" \notin DOMAIN answer.user
          /\ "password" \notin DOMAIN answer.token

\* C28 witness: the same wrong credentials were refused once before the
\* email was registered and once after, and a signup and a login succeeded.
RefusedBeforeAndAfterSignup ==
    \E i, j \in DOMAIN logins :
        /\ logins[i].email = logins[j].email
        /\ logins[i].password = logins[j].password
        /\ ~logins[i].found /\ logins[i].response.status = 400
        /\ logins[j].found /\ logins[j].response.status = 400
        /\ \E k \in DOMAIN signups : signups[k].response.status = 201


(***************************************************************************)
(* rides.js: POST /rides/book and DELETE /rides/:rideId over the table     *)
(* rides.  The id of a ride is its position in the table (ids are the      *)
(* primary key); a row keeps the columns user_id and status.               *)
(***************************************************************************)
MaxRides == 3           \* rows of rides in one run

UserIds == {"rider_1", "rider_2"}

\* The ids a DELETE may name: every id a row can have, and one that none has.
RideIds == 1..(MaxRides + 1)

WhereId(table, rideId, userId) == {r \in DOMAIN table : r = rideId}

\* WHERE id = ? AND user_id = ?
WhereIdAndUser(table, rideId, userId) ==
    {r \in DOMAIN table : r = rideId /\ table[r].user_id = userId}

\* UPDATE rides SET status = "cancelled" WHERE ...
SetCancelled(table, matching) ==
    [r \in DOMAIN table |->
        IF r \in matching
        THEN [table[r] EXCEPT !.status = "cancelled"]
        ELSE table[r]]

\* POST /rides/book
BookRide(userId) ==
    /\ Len(rides) < MaxRides
    /\ rides' = Append(rides, [user_id |-> userId, status |-> "requested"])
    /\ lastCancel' = NoCancel
    /\ UNCHANGED <<uiVars, socketVars, authVars>>
    /\ UNCHANGED orchestrationVars

\* DELETE /rides/:rideId
CancelRide(rideId, userId) ==
    /\ rides' = SetCancelled(rides, WhereIdAndUser(rides, rideId, userId))
    /\ lastCancel' = [sent |-> TRUE, rideId |-> rideId, userId |-> userId,
                      status |-> 200]
    /\ UNCHANGED <<uiVars, socketVars, authVars>>
    /\ UNCHANGED orchestrationVars

NextRides ==
    \/ \E userId \in UserIds : BookRide(userId)
    \/ \E rideId \in RideIds, userId \in UserIds : CancelRide(rideId, userId)

SpecRides == Init /\ [][NextRides]_vars

\* C29: a step changes a row of rides only if it serves a DELETE naming
\* that row's id for the row's owner, and then only sets its status to
\* cancelled; every other row is as it was.
CancelChangesOnlyOwnRide ==
    [][/\ Len(rides') >= Len(rides)
       /\ \A r \in DOMAIN rides :
            rides'[r] # rides[r] =>
                /\ lastCancel'.sent
                /\ lastCancel'.rideId = r
                /\ lastCancel'.userId = rides[r].user_id
                /\ rides'[r] = [rides[r] EXCEPT !.status = "cancelled"]]_vars

\* C29 witness: a DELETE has cancelled the requester's ride while another
\* ride of the requester and a ride of another user are still requested,
\* and so is a ride that a DELETE of another user named.
CancelledOneOfThree ==
    /\ lastCancel.sent
    /\ lastCancel.rideId \in DOMAIN rides
    /\ rides[lastCancel.rideId].user_id # lastCancel.userId
    /\ rides[lastCancel.rideId].status = "requested"
    /\ \E r, o \in DOMAIN rides :
          /\ r # o
          /\ rides[r].user_id = rides[o].user_id
          /\ rides[r].status = "cancelled"
          /\ rides[o].status = "requested"

====
